---------------------------- MODULE Spec2Model ----------------------------
(***************************************************************************)
(* AutoForm (QGIS plugin): foreign-key relation discovery and form widget  *)
(* planning, src/autoform.py, with the connection made by                  *)
(* src/connector.py.                                                       *)
(*                                                                         *)
(* One invocation of the plugin's action is handleFormofLayer.  Its call   *)
(* chain identifyRelations -> handleLayers -> addRefTables ->              *)
(* handleValueRelations -> identifyRelations is modelled with an explicit  *)
(* call stack, one frame per identifyRelations/alterForm pair.  A Python   *)
(* exception that no function of the plugin catches unwinds the whole      *)
(* stack and ends the invocation (the slot returns to Qt): result becomes  *)
(* "exception" and exc records the raising line.                           *)
(*                                                                         *)
(* RelationRetriever (relationretriever.py) is not among the sources; its  *)
(* queries are modelled from the specification's SchemaCatalog contract.   *)
(*                                                                         *)
(* Spec is the plugin, every call of the connector reduced to its result   *)
(* (ConnectResults).  ConnectorSpec is one call of                         *)
(* Connector.uriDatabaseConnect step by step: connection attempts,         *)
(* credential prompts, warning and credential cache.                       *)
(***************************************************************************)
EXTENDS Integers, Sequences, FiniteSets, TLC

VARIABLES
    catalog,     \* the database schema the queries read; never written
    layers,      \* QgsProject.instance().mapLayers(): the layer objects
    groups,      \* layerTreeRoot(): group name -> the layer ids in it
    stack,       \* call stack of the running invocation, <<>> when idle
    result,      \* how the last invocation ended / "running"
    exc,         \* the line that raised, 0 when the invocation did not raise
    trace,       \* history: what the running or last invocation did
    prev,        \* history: layers, groups, result and trace as they were
                 \* when the running or last invocation was triggered
    invocations, \* invocations started so far
    connector    \* a call of Connector.uriDatabaseConnect: its locals, the
                 \* database it talks to, the credential cache, and the
                 \* history of its connection attempts and prompts

\* the project, the catalog and the invocation of the plugin
project == <<catalog, layers, groups, stack, result, exc, trace, prev, invocations>>

vars == <<catalog, layers, groups, stack, result, exc, trace, prev, invocations,
          connector>>

-----------------------------------------------------------------------------
(* Bounds *)

\* how many times the user triggers the action
MaxInvocations == 2

\* how many referenced tables of a schema are unusable (no primary key, or
\* not loadable as a valid layer)
MaxDefects == 1

\* how many credential prompts the user accepts in one call of the connector
\* before declining
MaxPrompts == 2

-----------------------------------------------------------------------------
(* The catalog: tables, columns, foreign keys *)

Tables == {"A", "B", "C"}

\* a dataset that is not a database table (a layer of another provider)
FileDataset == "S"

Datasets == Tables \cup {FileDataset}

Column(n, t, len) == [name |-> n, typeName |-> t, length |-> len]

\* columns every table of the graph scenarios has
BaseColumns ==
    << Column("id", "int4", 0), Column("a", "int4", 0), Column("b", "varchar", 81) >>

NumCols == Len(BaseColumns)

Ordinals == 1..NumCols

\* the columns of table t that may carry a foreign key
FkColumns(t) == IF t = "A" THEN {2, 3} ELSE IF t = "B" THEN {2} ELSE {}

ForeignKey(t, nat, ref, for) ==
    [conrel |-> t, conkey |-> nat, confrel |-> ref, confkey |-> for]

\* the declared types and lengths a column is drawn from
ColumnKinds ==
    { <<"text", 0>>, <<"varchar", 80>>, <<"varchar", 81>>, <<"date", 0>>,
      <<"bool", 0>>, <<"int4", 0>> }

\* what QgsEditorWidgetRegistry.findBest may select for a column
WidgetTypes == {"TextEdit", "Range"}


-----------------------------------------------------------------------------
(* Layer objects *)

\* widget configuration of a field nobody has configured
NoConfig == [Unset |-> TRUE]

\* QgsDataSourceUri.uri(): connection, schema, table and key column; the
\* connection and the schema are the same for every layer of the project
DataSourceUri(table, keyColumn) == <<table, keyColumn>>

UriTable(uri) == uri[1]

\* a QgsVectorLayer as constructed: no editor widget set up, no widget
\* configuration, no field constraint
VectorLayer(table, uri, providerName) ==
    [ table      |-> table,
      uri        |-> uri,
      provider   |-> providerName,
      setup      |-> [c \in Ordinals |-> ""],
      config     |-> [c \in Ordinals |-> NoConfig],
      constraint |-> [c \in Ordinals |-> "unset"] ]

LayerIds == 1..Len(layers)

-----------------------------------------------------------------------------
(* Initial states *)

FkSlots == { s \in Tables \X Ordinals : s[2] \in FkColumns(s[1]) }

\* the foreign keys of one schema: each slot references a table or nothing
FkSets(refColumns) ==
    { { ForeignKey(s[1], s[2], asg[s][1], asg[s][2]) :
          s \in { x \in FkSlots : asg[x][1] # "-" } } :
      asg \in [FkSlots -> ({"-"} \cup Tables) \X refColumns] }

\* which referenced tables are unusable, and how
DefectSets ==
    { D \in SUBSET ((Tables \ {"A"}) \X {"nopk", "invalid"}) :
        Cardinality(D) <= MaxDefects }

Catalog(fks, cols, defects, heur, notnull) ==
    [ fks     |-> fks,
      cols    |-> cols,
      pk      |-> [t \in Tables |-> IF <<t, "nopk">> \in defects THEN 0 ELSE 1],
      valid   |-> { t \in Tables : <<t, "invalid">> \notin defects },
      heur    |-> heur,
      notnull |-> notnull ]

NoTrace ==
    [ root |-> 0, connFailed |-> FALSE, addRef |-> {}, altered |-> {},
      visited |-> <<>>, nullChecks |-> <<>>, created |-> FALSE ]

\* the groups at the top level of the layer tree: whether a group of the name
\* exists and the layers in it
GroupNames == {"Tables", "Mine"}

NoGroup == [present |-> FALSE, members |-> {}]

Group(members) == [present |-> TRUE, members |-> members]

NoGroups == [g \in GroupNames |-> NoGroup]

NoPrev == [ layers |-> <<>>, groups |-> NoGroups, result |-> "none", trace |-> NoTrace ]

\* the primary key column of the tables that have one is column 1
KeyName(cat, t) == IF cat.pk[t] = 0 THEN "" ELSE cat.cols[t][cat.pk[t]].name

\* the project before the first invocation: the table A and a layer of
\* another provider are loaded, other tables may be
InitProject(cat, loaded, userGroups) ==
    /\ layers =
         << VectorLayer("A", DataSourceUri("A", KeyName(cat, "A")), "postgres"),
            VectorLayer(FileDataset, DataSourceUri(FileDataset, ""), "ogr") >>
         \o (IF "B" \in loaded
             THEN << VectorLayer("B", DataSourceUri("B", KeyName(cat, "B")), "postgres") >>
             ELSE << >>)
    /\ groups = userGroups
    /\ stack = << >>
    /\ result = "none"
    /\ exc = 0
    /\ trace = NoTrace
    /\ prev = NoPrev
    /\ invocations = 0

\* schemas over three tables (chains A->B->C, cycles A->B->A, self
\* references, sibling edges), every foreign key referencing the primary key
InitGraph ==
    \E fks \in FkSets({1}), defects \in DefectSets, loaded \in SUBSET {"B"} :
        /\ catalog =
             Catalog(fks, [d \in Datasets |-> BaseColumns], defects,
                     [d \in Datasets |-> [c \in Ordinals |-> "TextEdit"]],
                     [d \in Datasets |-> [c \in Ordinals |-> c = 1]])
        /\ InitProject(catalog, loaded, NoGroups)

\* the foreign keys of the scenarios that vary something else: none, or one
\* from A.a to B referencing B's primary key or B's column 2
FewFks == { {}, {ForeignKey("A", 2, "B", 1)}, {ForeignKey("A", 2, "B", 2)} }

\* columns of every kind on the tables A and S
InitColumns ==
    \E k2 \in ColumnKinds, k3 \in ColumnKinds, h \in WidgetTypes, nn \in BOOLEAN,
       fks \in FewFks :
        LET cols == << Column("id", "int4", 0), Column("a", k2[1], k2[2]),
                       Column("b", k3[1], k3[2]) >>
        IN  /\ catalog =
                 Catalog(fks,
                         [d \in Datasets |-> IF d \in {"A", FileDataset} THEN cols ELSE BaseColumns],
                         {},
                         [d \in Datasets |-> <<"Range", h, "TextEdit">>],
                         [d \in Datasets |-> <<TRUE, nn, FALSE>>])
            /\ InitProject(catalog, {}, NoGroups)

\* the layer tree before the first invocation: groups of the user's and of an
\* earlier run, empty or holding the first layer
GroupChoices == [GroupNames -> {NoGroup, Group({}), Group({1})}]

InitGroups ==
    \E fks \in FewFks, grps \in GroupChoices :
        /\ catalog =
             Catalog(fks, [d \in Datasets |-> BaseColumns], {},
                     [d \in Datasets |-> [c \in Ordinals |-> "TextEdit"]],
                     [d \in Datasets |-> [c \in Ordinals |-> c = 1]])
        /\ InitProject(catalog, {}, grps)

\* user name and password, as the uri carries them, the user enters them and
\* the database accepts them
Credential(user, passwd) == <<user, passwd>>

\* a uri without user name and password
NoCredential == Credential("", "")

Passwords == {"p1", "p2"}

Credentials == { Credential("u", p) : p \in Passwords }

\* the Connector as constructed (lines 23-24), with no call under way: pc
\* is the position in uriDatabaseConnect; uri the credentials in the uri of
\* the call; conn, cur, ok and entered (user, passwd) its locals; database
\* the credentials the server accepts; cache what QgsCredentials was given
\* to store; attempts and prompts the history of the calls of lines 34 and 37
NoCall ==
    [ pc |-> "idle", uri |-> NoCredential, database |-> NoCredential,
      conn |-> FALSE, cur |-> "None", ok |-> FALSE, entered |-> NoCredential,
      attempts |-> << >>, prompts |-> << >>, warnings |-> 0, cache |-> << >> ]

Init ==
    /\ InitGraph \/ InitColumns \/ InitGroups
    /\ connector = NoCall

-----------------------------------------------------------------------------
(* Connector and RelationRetriever *)

\* Connector.uriDatabaseConnect returns cur: the cursor of the connection it
\* established, or None (cur's initial value) once the user declines the
\* credential prompt.  It never returns False.
ConnectResults == {"cursor", "None"}

\* RelationRetriever.retrieveReferencedTables with retrieveForeignTables,
\* retrieveForeignCol and retrieveNativeCol: one row per foreign-key
\* constraint whose referrer is the table of uri
retrieveReferencedTables(uri) ==
    { e \in catalog.fks : e.conrel = UriTable(uri) }

\* RelationRetriever.retrieveTablePrimaryKeyName: the name of the primary key
\* column of the referenced table, empty when it declares none
retrieveTablePrimaryKeyName(table) == KeyName(catalog, table)

\* RelationRetriever.checkNotNull: per column, whether it is NOT NULL
checkNotNull(uri) ==
    [c \in Ordinals |->
        IF catalog.notnull[UriTable(uri)][c] THEN "NotNull" ELSE "Nullable"]

\* a query through a retriever built on cur: it needs a cursor
QueryRaises(cur) == cur # "cursor"

-----------------------------------------------------------------------------
(* addRefTables *)

\* line 212: QgsProject() constructs a new project object (the project of
\* the application is QgsProject.instance(), as lines 176 and 226 have it);
\* a new project holds no map layers, so the loop body never runs
NewProjectMapLayers(ls) == << >>

\* line 218 as a call on the project of the application: the layer is
\* registered
AddMapLayerOnInstance(ls, new_layer) ==
    [raised |-> FALSE, layers |-> Append(ls, new_layer)]

\* line 218: addMapLayer is an instance method called on the class, so
\* new_layer is bound to self and False to the layer: the binding rejects the
\* call with a TypeError and nothing is registered
AddMapLayerOnClass(ls, new_layer) == [raised |-> TRUE, layers |-> ls]

\* lines 198-222.  ret is "layer" (new_layer, its id in new), "False",
\* "None" (the function ends without a return statement) or "raise"
addRefTables(uri, table, attr_name, ls, grps) ==
    LET foreign_uri == DataSourceUri(table, attr_name)
        new_layer == VectorLayer(table, foreign_uri, "postgres")
        mapLayers == NewProjectMapLayers(ls)
        layer_exists ==
            \E i \in DOMAIN mapLayers : foreign_uri = mapLayers[i].uri
        added == AddMapLayerOnClass(ls, new_layer)
        same == [ret |-> "None", line |-> 0, layers |-> ls, groups |-> grps,
                 new |-> 0, uri |-> foreign_uri]
    IN  IF table \in catalog.valid
        THEN IF ~layer_exists
             THEN IF added.raised
                  THEN [same EXCEPT !.ret = "raise", !.line = 218]
                  ELSE [same EXCEPT
                          !.ret = "layer",
                          !.layers = added.layers,
                          !.new = Len(added.layers),
                          !.groups = [grps EXCEPT !["Tables"].members =
                                         @ \cup {Len(added.layers)}]]
             ELSE [same EXCEPT !.ret = "False"]
        ELSE same

-----------------------------------------------------------------------------
(* handleValueRelations *)

\* line 136: column_index is the integer ref_native_col_num - 1 of line 132;
\* an integer has no attribute displayName, so evaluating the argument of
\* findBest raises AttributeError
ColumnIndexDisplayNameRaises(column_index) == TRUE

\* lines 135-136 when the argument could be evaluated: the registry's choice
\* for the column, which is the widget already set up on it if there is one
findBest(layer, ordinal) ==
    IF layer.setup[ordinal] # ""
    THEN layer.setup[ordinal]
    ELSE catalog.heur[layer.table][ordinal]

\* lines 119-146 up to the recursive call.  kind is "raise", "recurse" (line
\* 145 is reached: identifyRelations(new_layer), then alterForm(new_layer))
\* or "return" (the condition of line 131 is false)
handleValueRelations(a, ref_native_col_num, ref_foreign_col_num, selected, ls) ==
    LET out == [kind |-> "return", line |-> 0, layers |-> ls]
    IN  IF a.ret = "None"
        THEN \* line 125: None has no attribute fields
             [out EXCEPT !.kind = "raise", !.line = 125]
        ELSE
        LET new_layer == ls[a.new]
            selected_layer == ls[selected]
        IN  IF ref_foreign_col_num \notin Ordinals
            THEN [out EXCEPT !.kind = "raise", !.line = 126]
            ELSE IF ref_native_col_num \notin Ordinals
            THEN [out EXCEPT !.kind = "raise", !.line = 129]
            ELSE
            LET foreign_column == catalog.cols[new_layer.table][ref_foreign_col_num].name
                native_column == catalog.cols[selected_layer.table][ref_native_col_num].name
                \* the ordinal of the field at index ref_native_col_num - 1
                column_index == ref_native_col_num
            IN  IF native_column # "" /\ foreign_column # ""
                THEN IF ColumnIndexDisplayNameRaises(column_index)
                     THEN [out EXCEPT !.kind = "raise", !.line = 136]
                     ELSE [out EXCEPT
                             !.kind = "recurse",
                             !.layers = [ls EXCEPT
                                 ![selected].setup[column_index] =
                                     findBest(selected_layer, column_index),
                                 ![selected].config[column_index] =
                                     [ Layer |-> a.new, Key |-> foreign_column,
                                       Value |-> foreign_column, AllowMulti |-> FALSE,
                                       AllowNull |-> FALSE, OrderByValue |-> TRUE ]]]
                ELSE out

-----------------------------------------------------------------------------
(* The body of the loop of handleLayers *)

\* lines 187-196 as they would run if every referenced layer were registered
\* and handed to handleValueRelations without looking for it in the project
\* and the widget were written: the layer is added and traversed again
edgeOutcomeAlwaysAdds(e, selected, ls, grps) ==
    LET foreign_uri == DataSourceUri(e.confrel, retrieveTablePrimaryKeyName(e.confrel))
        added == Append(ls, VectorLayer(e.confrel, foreign_uri, "postgres"))
    IN  [ kind |-> "recurse", line |-> 0, ret |-> "layer", uri |-> foreign_uri,
          new |-> Len(added),
          groups |-> [grps EXCEPT !["Tables"].members = @ \cup {Len(added)}],
          layers |-> [added EXCEPT ![selected].config[e.conkey] =
                        [ Layer |-> Len(added),
                          Key |-> catalog.cols[e.confrel][e.confkey].name,
                          Value |-> catalog.cols[e.confrel][e.confkey].name,
                          AllowMulti |-> FALSE, AllowNull |-> FALSE,
                          OrderByValue |-> TRUE ]] ]

\* lines 187-196: the primary key name and the column numbers of the
\* constraint, addRefTables and, unless it returned False,
\* handleValueRelations.  kind is "raise", "recurse", "return" (the call of
\* line 194 returned) or "skip" (line 193 was false)
edgeOutcome(e, selected, ls, grps) ==
    LET uri == ls[selected].uri
        pkeyName == retrieveTablePrimaryKeyName(e.confrel)
        ref_foreign_col_num == e.confkey
        ref_native_col_num == e.conkey
        a == addRefTables(uri, e.confrel, pkeyName, ls, grps)
        h == handleValueRelations(a, ref_native_col_num, ref_foreign_col_num,
                                  selected, a.layers)
        out == [ kind |-> "skip", line |-> 0, ret |-> a.ret, uri |-> a.uri,
                 new |-> a.new, layers |-> a.layers, groups |-> a.groups ]
    IN  IF a.ret = "raise" THEN [out EXCEPT !.kind = "raise", !.line = a.line]
        ELSE IF a.ret = "False" THEN out
        ELSE [out EXCEPT !.kind = h.kind, !.line = h.line, !.layers = h.layers]

-----------------------------------------------------------------------------
(* alterForm *)

\* line 101: a varchar longer than this gets a multiline editor
MultilineThreshold == 80

\* line 101 with the boundary on the wrong side
IsMultilineFrom(length) == length >= MultilineThreshold

\* line 101: field.length() > 80
IsMultiline(length) == length > MultilineThreshold

\* line 90 without the test: the planner overrides whatever findBest selects
AnyWidgetType(widget_type_name) == TRUE

\* line 90: widget_type_name != 'TextEdit', negated
IsTextEdit(widget_type_name) == widget_type_name = "TextEdit"

\* lines 83-113 for the field of one ordinal: the editor widget setup and the
\* widget configuration of the field afterwards.  The setup handed to
\* setEditorWidgetSetup is widget_type, the one findBest returned (of type
\* TextEdit in every branch that sets it)
alterField(layer, ordinal) ==
    LET field == catalog.cols[layer.table][ordinal]
        f_type == field.typeName
        widget_type == findBest(layer, ordinal)
        keep == [setup |-> layer.setup[ordinal], config |-> layer.config[ordinal]]
        set(cfg) == [setup |-> widget_type, config |-> cfg]
    IN  IF ~IsTextEdit(widget_type) THEN keep
        ELSE IF f_type = "text"
        THEN set([IsMultiline |-> TRUE, UseHtml |-> FALSE])
        ELSE IF f_type = "varchar"
        THEN set([IsMultiline |-> IsMultiline(field.length),
                  UseHtml |-> FALSE])
        ELSE IF f_type = "date"
        THEN set([display_format |-> "yyyy-MM-dd", field_format |-> "yyyy-MM-dd",
                  calendar_popup |-> TRUE])
        ELSE IF f_type = "bool"
        THEN set([CheckedState |-> "t", UncheckedState |-> "f"])
        ELSE keep

\* lines 82-117 with line 115 inside the branches that set a widget: a field
\* whose widget is left alone gets no constraint
alterFieldsConstraintInBranch(layer, not_nullable_columns) ==
    LET changed(c) ==
            \/ alterField(layer, c).setup # layer.setup[c]
            \/ alterField(layer, c).config # layer.config[c]
    IN  [layer EXCEPT
            !.setup = [c \in Ordinals |-> alterField(layer, c).setup],
            !.config = [c \in Ordinals |-> alterField(layer, c).config],
            !.constraint = [c \in Ordinals |->
                              IF changed(c) THEN not_nullable_columns[c]
                              ELSE layer.constraint[c]]]

\* lines 82-117 with the list of checkNullableColumns: every field gets its
\* widget, then its constraint
alterFields(layer, not_nullable_columns) ==
    [layer EXCEPT
        !.setup = [c \in Ordinals |-> alterField(layer, c).setup],
        !.config = [c \in Ordinals |-> alterField(layer, c).config],
        !.constraint = [c \in Ordinals |-> not_nullable_columns[c]]]

\* lines 82-117 when checkNullableColumns returned None (the provider is not
\* postgres): the first field gets its widget, then line 117 subscripts None
alterFirstField(layer) ==
    [layer EXCEPT
        !.setup[1] = alterField(layer, 1).setup,
        !.config[1] = alterField(layer, 1).config]

-----------------------------------------------------------------------------
(* The call stack *)

\* identifyRelations(layer) followed by alterForm(layer), called from
\* handleFormofLayer (lines 62-63) or handleValueRelations (lines 145-146)
Frame(layer, caller) ==
    [layer |-> layer, pc |-> "identifyRelations", pending |-> {}, caller |-> caller]

Top == stack[Len(stack)]

SetTop(f) == [stack EXCEPT ![Len(stack)] = f]

Running(pc) == stack # << >> /\ Top.pc = pc

\* an exception nobody catches: the invocation is over
Raise(line) ==
    /\ stack' = << >>
    /\ result' = "exception"
    /\ exc' = line

-----------------------------------------------------------------------------
(* Actions *)

\* line 56 without the test: every layer passes
AnyProvider(selected_layer) == TRUE

\* line 56: selected_layer.dataProvider().name() != 'postgres', negated
IsPostgres(selected_layer) == selected_layer.provider = "postgres"

\* line 156 testing the truth value of cur: None counts as no cursor
NotCur(cur) == cur # "cursor"

\* line 156: cur is False
CurIsFalse(cur) == cur = "False"

\* lines 54-62 and 69-73: the user triggers "Generate Form"; active is the
\* active layer, 0 when there is none
handleFormofLayer(active) ==
    /\ stack = << >>
    /\ invocations < MaxInvocations
    /\ invocations' = invocations + 1
    /\ prev' = [layers |-> layers, groups |-> groups, result |-> result,
                trace |-> trace]
    /\ trace' = [NoTrace EXCEPT !.root = active]
    /\ exc' = 0
    /\ IF active = 0
       THEN /\ result' = "no_layer"
            /\ stack' = << >>
       ELSE IF ~IsPostgres(layers[active])
       THEN /\ result' = "not_postgis"
            /\ stack' = << >>
       ELSE /\ result' = "running"
            /\ stack' = << Frame(active, "handleFormofLayer") >>
    /\ UNCHANGED <<catalog, layers, groups, connector>>

\* lines 148-159 and the head of handleLayers, lines 174-180
identifyRelations ==
    /\ Running("identifyRelations")
    /\ LET selected_layer == layers[Top.layer]
           uri == selected_layer.uri
       IN  IF selected_layer.provider # "postgres"
           THEN /\ stack' = SetTop([Top EXCEPT !.pc = "alterForm"])
                /\ trace' = [trace EXCEPT !.visited = Append(@, Top.layer)]
                /\ UNCHANGED <<groups, result, exc>>
           ELSE \E cur \in ConnectResults :
                /\ trace' = [trace EXCEPT
                               !.visited = Append(@, Top.layer),
                               !.connFailed = @ \/ cur = "None",
                               !.created = @ \/ ( /\ ~CurIsFalse(cur)
                                                  /\ ~QueryRaises(cur)
                                                  /\ ~groups["Tables"].present )]
                /\ IF CurIsFalse(cur)
                   THEN /\ stack' = SetTop([Top EXCEPT !.pc = "alterForm"])
                        /\ UNCHANGED <<groups, result, exc>>
                   ELSE IF QueryRaises(cur)
                   THEN /\ Raise(175)
                        /\ UNCHANGED groups
                   ELSE /\ stack' = SetTop([Top EXCEPT
                                       !.pc = "handleLayers",
                                       !.pending = retrieveReferencedTables(uri)])
                        /\ groups' = IF groups["Tables"].present
                                     THEN groups
                                     ELSE [groups EXCEPT !["Tables"] = Group({})]
                        /\ UNCHANGED <<result, exc>>
    /\ UNCHANGED <<catalog, layers, prev, invocations, connector>>

\* lines 182-196, one pass of the loop body for the constraint e
handleLayers ==
    /\ Running("handleLayers")
    /\ \E e \in Top.pending :
        LET o == edgeOutcome(e, Top.layer, layers, groups)
            rest == [Top EXCEPT !.pending = @ \ {e}]
        IN  /\ trace' = [trace EXCEPT !.addRef = @ \cup
                           {[uri |-> o.uri, edge |-> e, ret |-> o.ret,
                             present |-> \E i \in LayerIds : layers[i].uri = o.uri]}]
            /\ layers' = o.layers
            /\ groups' = o.groups
            /\ IF o.kind = "raise"
               THEN Raise(o.line)
               ELSE /\ stack' = IF o.kind = "recurse"
                                THEN Append(SetTop(rest),
                                            Frame(o.new, "handleValueRelations"))
                                ELSE SetTop(rest)
                    /\ UNCHANGED <<result, exc>>
    /\ UNCHANGED <<catalog, prev, invocations, connector>>

\* the loops of lines 182 and 186 are exhausted: handleLayers and
\* identifyRelations return
handleLayersReturn ==
    /\ Running("handleLayers")
    /\ Top.pending = {}
    /\ stack' = SetTop([Top EXCEPT !.pc = "alterForm"])
    /\ UNCHANGED <<catalog, layers, groups, result, exc, trace, prev, invocations,
                   connector>>

\* lines 75-117 with checkNullableColumns, lines 233-245
alterForm ==
    /\ Running("alterForm")
    /\ LET selected_layer == layers[Top.layer]
           after == IF Top.caller = "handleFormofLayer"
                    THEN SetTop([Top EXCEPT !.pc = "filterEmptyGroups"])
                    ELSE SubSeq(stack, 1, Len(stack) - 1)
       IN  IF selected_layer.provider # "postgres"
           THEN /\ layers' = [layers EXCEPT ![Top.layer] = alterFirstField(selected_layer)]
                /\ Raise(117)
                /\ UNCHANGED trace
           ELSE \E cur \in ConnectResults :
                IF QueryRaises(cur)
                THEN /\ Raise(244)
                     /\ trace' = [trace EXCEPT !.connFailed = TRUE]
                     /\ UNCHANGED layers
                ELSE /\ layers' = [layers EXCEPT ![Top.layer] =
                                      alterFields(selected_layer,
                                                  checkNotNull(selected_layer.uri))]
                     /\ trace' = [trace EXCEPT
                                    !.altered = @ \cup {Top.layer},
                                    !.nullChecks = Append(@, Top.layer)]
                     /\ stack' = after
                     /\ UNCHANGED <<result, exc>>
    /\ UNCHANGED <<catalog, groups, prev, invocations, connector>>

\* lines 228-231 with the test of line 230 inverted: the groups that hold
\* layers are removed
removeGroupsWithLayers(grps) ==
    [g \in GroupNames |->
        IF grps[g].present /\ grps[g].members # {} THEN NoGroup ELSE grps[g]]

\* lines 228-231: every group at the top level in which findLayers finds no
\* layer is removed from the root
removeEmptyGroups(grps) ==
    [g \in GroupNames |->
        IF grps[g].present /\ grps[g].members = {} THEN NoGroup ELSE grps[g]]

\* lines 64-68 with filterEmptyGroups, lines 224-231: the groups without
\* layers are removed and success is reported
filterEmptyGroups ==
    /\ Running("filterEmptyGroups")
    /\ groups' = removeEmptyGroups(groups)
    /\ result' = "success"
    /\ stack' = << >>
    /\ UNCHANGED <<catalog, layers, exc, trace, prev, invocations, connector>>

Next ==
    \/ \E active \in 0..Len(layers) : handleFormofLayer(active)
    \/ identifyRelations
    \/ handleLayers
    \/ handleLayersReturn
    \/ alterForm
    \/ filterEmptyGroups

Spec == Init /\ [][Next]_vars

\* an invocation runs to its end once triggered; the user need not trigger one
Step ==
    identifyRelations \/ handleLayers \/ handleLayersReturn \/ alterForm
    \/ filterEmptyGroups

FairSpec == Spec /\ WF_vars(Step)

-----------------------------------------------------------------------------
(* Connector.uriDatabaseConnect *)

\* a project with the table A and no call of the connector under way, and a
\* database that accepts one user name and password
ConnectorInit ==
    /\ catalog =
         Catalog({}, [d \in Datasets |-> BaseColumns], {},
                 [d \in Datasets |-> [c \in Ordinals |-> "TextEdit"]],
                 [d \in Datasets |-> [c \in Ordinals |-> c = 1]])
    /\ InitProject(catalog, {}, NoGroups)
    /\ \E valid \in Credentials : connector = [NoCall EXCEPT !.database = valid]

\* lines 28-31: the call starts; uri carries credentials or none
uriDatabaseConnect(uri) ==
    /\ connector.pc = "idle"
    /\ connector' = [connector EXCEPT
                       !.pc = "while", !.uri = uri,
                       !.conn = FALSE, !.cur = "None", !.ok = FALSE]
    /\ UNCHANGED project

\* line 34: the connection string is uri.connectionInfo(), on the first pass
\* of the loop and on every later one; nothing assigns to uri
ConnectionInfo(c) == c.uri

\* lines 32-36: conn is None, so the loop body runs; psycopg2.connect gives
\* a connection when the server can be reached and accepts the credentials
\* of the connection string, and raises OperationalError otherwise
psycopg2Connect ==
    /\ connector.pc = "while"
    /\ \E reachable \in BOOLEAN :
        LET conninfo == ConnectionInfo(connector)
            connected == reachable /\ conninfo = connector.database
        IN  connector' = [connector EXCEPT
                !.attempts = Append(@, [cred |-> conninfo, ok |-> connected]),
                !.conn = connected,
                !.cur = IF connected THEN "cursor" ELSE @,
                !.pc = IF connected THEN "after" ELSE "get"]
    /\ UNCHANGED project

\* lines 37-40: QgsCredentials.get asks for credentials; the user enters
\* some and accepts, or declines, which breaks the loop
credentialsGet ==
    /\ connector.pc = "get"
    /\ \/ \E c \in Credentials :
            /\ Cardinality({ i \in DOMAIN connector.prompts :
                                connector.prompts[i].ok }) < MaxPrompts
            /\ connector' = [connector EXCEPT
                    !.prompts = Append(@, [ok |-> TRUE, cred |-> c]),
                    !.ok = TRUE, !.entered = c, !.pc = "while"]
       \/ connector' = [connector EXCEPT
                !.prompts = Append(@, [ok |-> FALSE, cred |-> connector.uri]),
                !.ok = FALSE, !.entered = connector.uri, !.pc = "after"]
    /\ UNCHANGED project

\* line 49 testing conn in place of ok
PutWhenConnected(ok, conn) == conn

\* line 49: if ok
ShouldPut(ok, conn) == ok

\* lines 42-52: the warning when there is no connection, the credentials
\* stored under the connection string when ok, and cur returned
uriDatabaseConnectReturn ==
    /\ connector.pc = "after"
    /\ connector' = [connector EXCEPT
            !.warnings = IF ~connector.conn THEN @ + 1 ELSE @,
            !.cache = IF ShouldPut(connector.ok, connector.conn)
                      THEN Append(@, [realm |-> connector.uri,
                                      cred |-> connector.entered])
                      ELSE @,
            !.pc = "returned"]
    /\ UNCHANGED project

ConnectorNext ==
    \/ \E uri \in Credentials \cup {NoCredential} : uriDatabaseConnect(uri)
    \/ psycopg2Connect
    \/ credentialsGet
    \/ uriDatabaseConnectReturn

ConnectorSpec == ConnectorInit /\ [][ConnectorNext]_vars

-----------------------------------------------------------------------------
(* Properties *)

\* the invocation that was triggered last is over
Ended == stack = << >> /\ invocations > 0

RootLayer == layers[trace.root]

\* the last invocation ran on a postgres layer and every connection it asked
\* for was established
RanOnCatalog ==
    /\ trace.root # 0
    /\ RootLayer.provider = "postgres"
    /\ ~trace.connFailed

\* the foreign keys whose referrer is the table of layer l
OutgoingFks(l) == { e \in catalog.fks : e.conrel = layers[l].table }

\* the tables reachable from table t through one or more foreign keys
RECURSIVE ReachableFrom(_, _)
ReachableFrom(frontier, seen) ==
    LET next == { e.confrel : e \in { x \in catalog.fks : x.conrel \in frontier } } \ seen
    IN  IF next = {} THEN seen ELSE ReachableFrom(next, seen \cup next)

Reachable(t) == ReachableFrom({t}, {})

LoadedTables == { layers[i].table : i \in LayerIds }

\* the referenced table has a primary key and loads as a valid layer
Usable(t) == catalog.pk[t] # 0 /\ t \in catalog.valid

\* C1: at every moment, during and after an invocation and on every schema,
\* no two layers of the project have the same datasource URI (addRefTables
\* adds no layer whose URI a layer of the project already has).
C1_NoDuplicateUri ==
    \A i \in LayerIds, j \in LayerIds :
        layers[i].uri = layers[j].uri => i = j

\* C1's case: on a schema with a cycle through the root, addRefTables was
\* called for a table that loads as a valid layer and whose URI a layer of
\* the project already had.
C1_Witness ==
    \E r \in trace.addRef :
        /\ r.present
        /\ r.ret # "None"
        /\ RootLayer.table \in Reachable(RootLayer.table)

\* no datasource URI is traversed twice in one invocation, neither nested
\* nor one after the other
NoRevisit ==
    \A i \in DOMAIN trace.visited, j \in DOMAIN trace.visited :
        layers[trace.visited[i]].uri = layers[trace.visited[j]].uri => i = j

\* C2: on every schema, self-referencing and mutually referencing tables
\* included, an invocation that was started comes to an end, and
\* identifyRelations is never entered for a table it was already entered for
\* in the invocation.
C2_Terminates ==
    /\ []NoRevisit
    /\ (stack # << >>) ~> (stack = << >>)

\* C2's case: an invocation on a table that references itself, or that is on
\* a cycle of foreign keys, has ended after handling a foreign key.
C2_Witness ==
    /\ Ended
    /\ trace.root # 0
    /\ RootLayer.table \in Reachable(RootLayer.table)
    /\ trace.addRef # {}

\* every table reachable from the root table can be loaded
ReachableUsable == \A t \in Reachable(RootLayer.table) : Usable(t)

IsValueRelation(cfg) == "Layer" \in DOMAIN cfg

\* C4: after an invocation on a root table, every column of it that is the
\* native side of a foreign key has a ValueRelation widget configuration,
\* whatever its declared type.
C4_FkIsValueRelation ==
    (Ended /\ RanOnCatalog /\ ReachableUsable) =>
        \A e \in OutgoingFks(trace.root) :
            IsValueRelation(RootLayer.config[e.conkey])

\* C5: the widget configuration of a foreign-key column of the root names
\* the layer of the referenced table, the referenced table's primary key as
\* Key and as Value, AllowMulti and AllowNull false and OrderByValue true,
\* also when the constraint references another column than the primary key.
C5_ValueRelationConfig ==
    (Ended /\ RanOnCatalog /\ ReachableUsable) =>
        \A e \in OutgoingFks(trace.root) :
            LET cfg == RootLayer.config[e.conkey]
                pk == KeyName(catalog, e.confrel)
            IN  /\ IsValueRelation(cfg)
                /\ cfg.Layer \in LayerIds
                /\ layers[cfg.Layer].table = e.confrel
                /\ cfg = [ Layer |-> cfg.Layer, Key |-> pk, Value |-> pk,
                           AllowMulti |-> FALSE, AllowNull |-> FALSE,
                           OrderByValue |-> TRUE ]

\* column c of layer l is the native side of a foreign key
IsFkColumn(l, c) == \E e \in OutgoingFks(l) : e.conkey = c

\* C6: once alterForm has run on a layer, each of its varchar columns that
\* is not a foreign-key column and for which findBest selects TextEdit has
\* the configuration IsMultiline = (length > 80), UseHtml = false.
C6_VarcharMultiline ==
    \A l \in trace.altered, c \in Ordinals :
        LET field == catalog.cols[layers[l].table][c]
        IN  ( /\ field.typeName = "varchar"
              /\ catalog.heur[layers[l].table][c] = "TextEdit"
              /\ ~IsFkColumn(l, c) )
            => layers[l].config[c] =
                 [IsMultiline |-> (field.length > 80), UseHtml |-> FALSE]

\* C6's case: alterForm has run on a table with a varchar(80) and a
\* varchar(81) column, both TextEdit: the first is single-line, the second
\* multiline.
C6_Witness ==
    \E l \in trace.altered :
        LET cols == catalog.cols[layers[l].table]
        IN  /\ cols[2].typeName = "varchar" /\ cols[2].length = 80
            /\ cols[3].typeName = "varchar" /\ cols[3].length = 81
            /\ catalog.heur[layers[l].table][2] = "TextEdit"
            /\ catalog.heur[layers[l].table][3] = "TextEdit"
            /\ layers[l].config[2] = [IsMultiline |-> FALSE, UseHtml |-> FALSE]
            /\ layers[l].config[3] = [IsMultiline |-> TRUE, UseHtml |-> FALSE]

C8_UnsupportedProvider ==
    (trace.root # 0 /\ RootLayer.provider # "postgres") =>
        /\ result = "not_postgis"
        /\ stack = << >>
        /\ layers = prev.layers
        /\ groups = prev.groups
        /\ trace.visited = << >>
        /\ trace.addRef = {}
        /\ trace.altered = {}

\* C8's case: an invocation on the layer of another provider is over, in a
\* project that has an empty group the cleanup pass would remove.
C8_Witness ==
    /\ Ended
    /\ trace.root # 0
    /\ RootLayer.provider # "postgres"
    /\ \E g \in GroupNames : groups[g].present /\ groups[g].members = {}

\* the invocation that just ended ran on the root of the one before it, and
\* in both every connection was established
SecondRunOnSameRoot ==
    /\ Ended
    /\ invocations >= 2
    /\ RanOnCatalog
    /\ prev.trace.root = trace.root
    /\ ~prev.trace.connFailed

C10_UnusableEdgeSkipped ==
    \A r \in trace.addRef :
        r.ret = "None" =>
            /\ result # "exception"
            /\ (Ended => \A e \in OutgoingFks(trace.root) :
                            \E q \in trace.addRef : q.edge = e)

\* the column is not the native side of a foreign key and findBest selected
\* this widget type for it when the invocation started
SelectedFor(l, c, widget_type_name) ==
    /\ l \in DOMAIN prev.layers
    /\ ~IsFkColumn(l, c)
    /\ findBest(prev.layers[l], c) = widget_type_name

\* C11: once alterForm has run on a layer, every column of it that is not a
\* foreign-key column and for which findBest selects another widget than
\* TextEdit has the editor widget setup and the widget configuration it had
\* before, whatever its declared type (date and bool included).
C11_UnmanagedUntouched ==
    \A l \in trace.altered, c \in Ordinals :
        (\E w \in WidgetTypes \ {"TextEdit"} : SelectedFor(l, c, w)) =>
            /\ layers[l].setup[c] = prev.layers[l].setup[c]
            /\ layers[l].config[c] = prev.layers[l].config[c]

\* C11's case: alterForm has run on a table with a date or bool column for
\* which findBest selects Range and a text column for which it selects
\* TextEdit: the first is as it was, the second was configured.
C11_Witness ==
    \E l \in trace.altered :
        LET cols == catalog.cols[layers[l].table]
        IN  /\ cols[2].typeName \in {"date", "bool"}
            /\ SelectedFor(l, 2, "Range")
            /\ layers[l].config[2] = NoConfig
            /\ cols[3].typeName = "text"
            /\ SelectedFor(l, 3, "TextEdit")
            /\ layers[l].config[3] # NoConfig

\* the editor widget types that present the widget variants PlainText, Date
\* and Boolean
VariantWidgetType ==
    [text |-> "TextEdit", date |-> "DateTime", bool |-> "CheckBox"]

\* the options of the widget variant of a declared type
VariantConfig ==
    [ text |-> [IsMultiline |-> TRUE, UseHtml |-> FALSE],
      date |-> [display_format |-> "yyyy-MM-dd", field_format |-> "yyyy-MM-dd",
                calendar_popup |-> TRUE],
      bool |-> [CheckedState |-> "t", UncheckedState |-> "f"] ]

\* C12: once alterForm has run on a layer, a column of it that is not a
\* foreign-key column and for which findBest selects TextEdit has the widget
\* of its declared type alone: text a multiline plain text editor without
\* HTML, date a date widget with both formats yyyy-MM-dd and a calendar
\* popup, bool a checkbox with the values t and f; a column of another type
\* (varchar apart) keeps the setup and the configuration it had.
C12_TypeDrivenWidget ==
    \A l \in trace.altered, c \in Ordinals :
        LET f_type == catalog.cols[layers[l].table][c].typeName
        IN  SelectedFor(l, c, "TextEdit") =>
              IF f_type \in DOMAIN VariantWidgetType
              THEN /\ layers[l].setup[c] = VariantWidgetType[f_type]
                   /\ layers[l].config[c] = VariantConfig[f_type]
              ELSE f_type # "varchar" =>
                   /\ layers[l].setup[c] = prev.layers[l].setup[c]
                   /\ layers[l].config[c] = prev.layers[l].config[c]

\* how often checkNullableColumns computed the list for layer l in the
\* invocation
NullChecksOf(l) ==
    Cardinality({ i \in DOMAIN trace.nullChecks : trace.nullChecks[i] = l })

AddedLayers == { l \in LayerIds : l \notin DOMAIN prev.layers }

\* C14: once an invocation on a root table (of the supported provider, with
\* the catalog reachable and every referenced table loadable) has completed,
\* alterForm has run on the root and on every layer the invocation added.
C14_EveryTablePlanned ==
    (Ended /\ RanOnCatalog /\ ReachableUsable) =>
        ({trace.root} \cup AddedLayers) \subseteq trace.altered

\* C15: whenever the traversal is inside the expansion of a newly found
\* table (a call of identifyRelations or alterForm from lines 145-146), the
\* table that references it has no foreign key left to resolve.
C15_BreadthFirst ==
    \A i \in 2..Len(stack) : stack[i - 1].pending = {}

\* C15's case: a newly found table is being expanded.
C15_Witness == Len(stack) >= 2

\* C16: after an invocation that reported success no group at the top level
\* of the layer tree is empty, a "Tables" group the invocation created and
\* put no layer in included; the cleanup runs once the relations of the root
\* were looked for and its widgets planned.
C16_NoEmptyGroup ==
    /\ result = "success" =>
          \A g \in GroupNames : groups[g].present => groups[g].members # {}
    /\ Running("filterEmptyGroups") =>
          /\ trace.visited # << >>
          /\ trace.root \in trace.altered

\* C16's case: a successful invocation created the "Tables" group, put no
\* layer in it, and the group is gone.
C16_Witness ==
    /\ Ended
    /\ result = "success"
    /\ trace.created
    /\ ~prev.groups["Tables"].present
    /\ ~groups["Tables"].present

\* the call of uriDatabaseConnect has returned
Returned == connector.pc = "returned"

\* the last connection attempt of the call gave a connection
LastAttemptConnected ==
    /\ connector.attempts # << >>
    /\ connector.attempts[Len(connector.attempts)].ok

\* the last answer to the credential prompt was to decline
LastPromptDeclined ==
    /\ connector.prompts # << >>
    /\ ~connector.prompts[Len(connector.prompts)].ok

\* C17: uriDatabaseConnect returns a cursor of a connection it established
\* or, after the user declined, None; no connection attempt follows one that
\* succeeded and neither attempt nor prompt follows a prompt the user
\* declined; and the connection attempt that follows an accepted prompt uses
\* the credentials entered in it.
C17_CursorOrFailure ==
    LET attempts == connector.attempts
        prompts == connector.prompts
    IN  /\ Returned =>
              \/ connector.cur = "cursor" /\ LastAttemptConnected
              \/ connector.cur = "None" /\ LastPromptDeclined
                   /\ ~LastAttemptConnected
        /\ Returned => connector.cur \in ConnectResults
        /\ \A i \in DOMAIN attempts : attempts[i].ok => i = Len(attempts)
        /\ \A i \in DOMAIN prompts :
              ~prompts[i].ok => i = Len(prompts) /\ Len(attempts) = i
        /\ \A i \in DOMAIN prompts :
              (prompts[i].ok /\ i + 1 \in DOMAIN attempts) =>
                  attempts[i + 1].cred = prompts[i].cred

\* C18: the credential cache is given credentials to store only by a call
\* that established a connection after the user accepted a prompt (the
\* credentials of the last prompt, once); a call that returns without a
\* connection stores nothing and shows the warning once, and a call that
\* connected shows none.
C18_PutOnlyWhenConnected ==
    LET prompts == connector.prompts
    IN  /\ connector.cache # << >> =>
              /\ Returned
              /\ connector.conn /\ LastAttemptConnected
              /\ prompts # << >> /\ prompts[Len(prompts)].ok
              /\ connector.cache =
                    << [realm |-> connector.uri, cred |-> prompts[Len(prompts)].cred] >>
        /\ (Returned /\ ~connector.conn) =>
              /\ connector.cache = << >>
              /\ connector.warnings = 1
              /\ LastPromptDeclined
        /\ (~Returned \/ connector.conn) => connector.warnings = 0

\* C18's case: a call connected after a failed attempt and an accepted
\* prompt, and has returned with the credentials stored.
C18_Witness ==
    /\ Returned
    /\ connector.conn
    /\ Len(connector.attempts) >= 2
    /\ connector.cache # << >>

=============================================================================
